---- MODULE Spec2Model ----
(***************************************************************************)
(* A model of the blackhole logging core: composite_logger_t (enable flag, *)
(* filter, frontends, exception handler, the open and push reader/writer   *)
(* locks), verbose_logger_t (the severity threshold and its default        *)
(* filter), the scoped attribute stack, the registry and the builder.      *)
(*                                                                         *)
(* Every logger of the model is a verbose_logger_t<Level>: its base is the *)
(* composite_logger_t under study, so the Core's operations are the ones   *)
(* of lines 80-181 and the severity part adds lines 219-268.               *)
(* Each thread runs one call at a time; a call is a sequence of steps, one *)
(* per access to shared state (an atomic load or store, a lock             *)
(* acquisition, a critical section).                                       *)
(***************************************************************************)
EXTENDS Integers, Sequences, FiniteSets, TLC

\* ------------------------------------------------------------- bounds
\* Severity ordinals are 0..MaxLevel.
MaxLevel == 2
\* Logging calls (open_record, push, verbosity, scopes) one thread starts
\* in a behaviour.
MaxCalls == 2
\* Reconfiguration calls (set_filter, add_frontend, set_exception_handler,
\* enabled(bool), constructions, moves) started in a behaviour.
MaxReconf == 2
\* Frames one thread may have active on one logger.
MaxDepth == 2
\* Frontends attached to one logger.
MaxFrontends == 2
\* Iterations M of the open_record+push loop of each thread (SpecLoop).
LoopM == 2
\* Operations of a behaviour of the registry (SpecRegistry).
MaxRegOps == 3

\* ------------------------------------------------------------- universe
Threads == {"t1", "t2"}
Loggers == {"A", "B"}
Levels == 0..MaxLevel
None == "none"

Other(l) == IF l = "A" THEN "B" ELSE "A"

\* attribute::pair_t: (name, value).
Pairs == {<<"a", 1>>, <<"b", 2>>}
\* attribute::set_t values the callers pass as `external`.
Externals == {<<>>, << <<"b", 2>> >>}
\* Frames a scope may carry.
Frames == {<< <<"a", 1>> >>, << <<"b", 2>>, <<"a", 1>> >>}

\* Process attributes the build may compile in besides the timestamp.
BuildConfigs == {{}, {"pid", "tid", "lwp"}}

\* ------------------------------------------------------------- filters
\* filter_type values: the default ordinal filter, filter::none, custom
\* predicates (one rejecting everything, one looking at the combined view),
\* and the empty std::function a default-constructed member holds.
DefaultFilter(threshold) == [kind |-> "default", threshold |-> threshold, name |-> None]
FilterNone == [kind |-> "none", threshold |-> 0, name |-> None]
FilterReject == [kind |-> "reject", threshold |-> 0, name |-> None]
FilterHas(n) == [kind |-> "has", threshold |-> 0, name |-> n]
FilterEmpty == [kind |-> "empty", threshold |-> 0, name |-> None]
CustomFilters == {FilterNone, FilterReject, FilterHas("a")}

\* Mutant of default_filter: strict comparison.
default_filter_strict(threshold, lvl) == lvl > threshold
default_filter(threshold, lvl) == lvl >= threshold

HasName(view, n) == \E i \in 1..Len(view) : view[i][1] = n

Verdict(b) == IF b THEN "true" ELSE "false"

\* d.filter(view, args...): "true"/"false", or "raised" for an empty std::function
\* (std::bad_function_call).
FilterCall(f, view, lvl) ==
    CASE f.kind = "default" -> Verdict(default_filter(f.threshold, lvl))
      [] f.kind = "none" -> "true"
      [] f.kind = "reject" -> "false"
      [] f.kind = "has" -> Verdict(HasName(view, f.name))
      [] OTHER -> "raised"

\* ------------------------------------------------------------- records
Invalid == [valid |-> FALSE, internal |-> <<>>, external |-> <<>>]
Record(internal, external) == [valid |-> TRUE, internal |-> internal, external |-> external]
NoRec == [valid |-> FALSE, internal |-> << <<"none", 0>> >>, external |-> <<>>]

\* ------------------------------------------------------------- scoped stack
RECURSIVE Flatten(_)
Flatten(frames) ==
    IF frames = <<>> THEN <<>> ELSE frames[1] \o Flatten(Tail(frames))

\* scoped.view(external): the frames outermost first, then external.
ScopedView(frames, external) == Flatten(frames) \o external

\* Mutant of ScopedMerge: the frames are appended after the caller's pairs.
ScopedMergeAppended(frames, external) == external \o Flatten(frames)
\* scoped.merge(external): the same concatenation, written into external.
ScopedMerge(frames, external) == Flatten(frames) \o external

\* ------------------------------------------------------------- populate
\* Line 257-259: the severity attribute, appended.
populate_additional(internal, lvl) == Append(internal, <<"severity", lvl>>)

\* Lines 166-181: the attributes compiled in, then the timestamp.
populate(cfg) ==
    (IF "pid" \in cfg THEN << <<"pid", 91>> >> ELSE <<>>)
    \o (IF "tid" \in cfg THEN << <<"tid", 92>> >> ELSE <<>>)
    \o (IF "lwp" \in cfg THEN << <<"lwp", 93>> >> ELSE <<>>)
    \o << <<"timestamp", 90>> >>

\* ------------------------------------------------------------- state
VARIABLES
    build,      \* the process attributes compiled in
    alive,      \* alive[l]: logger l has been constructed
    enabled,    \* d.enabled
    filter,     \* d.filter
    exception,  \* d.exception: "default", "custom" or "empty"
    frontends,  \* d.frontends: a sequence of frontend kinds ("ok", "raises")
    level,      \* verbose_logger_t::level
    scoped,     \* scoped[l][t]: the frames thread t has active on logger l
    saved,      \* saved[l][t]: per open scope, the view before it and its frame
    openLock,   \* d.lock.open: [r |-> reading threads, w |-> writer or None]
    pushLock,   \* d.lock.push
    pc,         \* pc[t]: the step thread t is at
    loc,        \* loc[t]: the locals of thread t's call
    held,       \* held[t]: the record thread t got from its last open_record
    ret,        \* ret[t]: what thread t's last finished call returned and did
    calls,      \* calls[t]: calls thread t has started
    reconf,     \* reconfiguration calls started
    handled,    \* frontend handle invocations, over all pushes
    registry,   \* registry[kind][name]: the factory registered, or None
    added,      \* the (kind, type name, factory) triples add was called with
    lookup,     \* the last lookup and its outcome
    regOps,     \* registry operations done
    built       \* the last builder.build call and its outcome

coreVars == <<alive, enabled, filter, exception, frontends, level, openLock, pushLock>>
threadVars == <<pc, loc, held, ret, calls, reconf, handled>>
regVars == <<registry, added, lookup, regOps, built>>
vars == <<build, coreVars, scoped, saved, threadVars, regVars>>

FreeLock == [r |-> {}, w |-> None]

\* The members operator= is to exchange, of every logger, as they are now.
Snapshot ==
    [x \in Loggers |-> [enabled |-> enabled[x], filter |-> filter[x],
                        exception |-> exception[x], frontends |-> frontends[x],
                        scoped |-> scoped[x]]]
NoSnapshot ==
    [x \in Loggers |-> [enabled |-> FALSE, filter |-> FilterEmpty,
                        exception |-> "empty", frontends |-> <<>>,
                        scoped |-> [t \in Threads |-> <<>>]]]

\* The locals of a call.
NoLoc ==
    [l |-> None, o |-> None, ext |-> <<>>, ext0 |-> <<>>, lvl |-> 0,
     f |-> FilterEmpty, fe |-> None, i |-> 0, tmp |-> FALSE, tmp2 |-> FALSE,
     seen |-> FilterEmpty, att |-> <<>>, exc |-> 0, sc0 |-> <<>>,
     rec |-> NoRec, ctor |-> FALSE, pre |-> NoSnapshot, fes0 |-> <<>>,
     h |-> None, view |-> <<>>]

\* What a finished call returned and did.
NoRet ==
    [op |-> None, l |-> None, rec |-> NoRec, evals |-> 0, merged |-> FALSE,
     ext |-> <<>>, ext0 |-> <<>>, lvl |-> 0, seen |-> FilterEmpty,
     by |-> FilterEmpty, att |-> <<>>, exc |-> 0, raised |-> FALSE,
     sc0 |-> <<>>, sc1 |-> <<>>, fes |-> <<>>, val |-> 0, views |-> <<>>,
     en |-> TRUE, verdict |-> None, o |-> None, pre |-> NoSnapshot,
     post |-> NoSnapshot, h |-> None, view |-> <<>>, w |-> None]

RegKinds == {"sink", "handler", "formatter"}
RegNames == {"file", "File"}
NoLookup == [kind |-> None, name |-> None, result |-> None]
\* No build has been called.
NoBuilt == [name |-> None, config |-> <<>>, known |-> {}, result |-> None,
            frontends |-> <<>>]

\* ------------------------------------------------------------- locks
\* boost::shared_mutex under shared_lock (reader) and unique_lock (writer).
ReaderLockable(lock) == lock.w = None
WriterLockable(lock) == lock.r = {} /\ lock.w = None
RLock(lock, t) == [lock EXCEPT !.r = @ \cup {t}]
RUnlock(lock, t) == [lock EXCEPT !.r = @ \ {t}]
WLock(lock, t) == [lock EXCEPT !.w = t]
WUnlock(lock) == [lock EXCEPT !.w = None]

\* ------------------------------------------------------------- calls
Idle(t) == pc[t] = "idle"

\* A thread starts a call: one more of its MaxCalls.
Begin(t) ==
    /\ Idle(t)
    /\ calls[t] < MaxCalls
    /\ calls' = [calls EXCEPT ![t] = @ + 1]

\* A thread starts a reconfiguration call.
BeginReconf(t) ==
    /\ Idle(t)
    /\ reconf < MaxReconf
    /\ reconf' = reconf + 1
    /\ UNCHANGED calls

Goto(t, label, locals) ==
    /\ pc' = [pc EXCEPT ![t] = label]
    /\ loc' = [loc EXCEPT ![t] = locals]

Return(t, r) ==
    /\ pc' = [pc EXCEPT ![t] = "idle"]
    /\ loc' = [loc EXCEPT ![t] = NoLoc]
    /\ ret' = [ret EXCEPT ![t] = r]

\* ------------------------------------------------------------- open_record
\* Mutant of Disabled: the flag is not consulted.
DisabledNever(l) == FALSE
\* Lines 104-106 and 136: !enabled(), an atomic load.
Disabled(l) == ~enabled[l]

\* Mutant of open_record_enabled: the flag is read once the open lock can
\* be taken.
open_record_enabled_locked(t, l, ext, lvl) ==
    /\ alive[l]
    /\ ReaderLockable(openLock[l])
    /\ IF Disabled(l)
       THEN /\ Return(t, [NoRet EXCEPT !.op = "open_record", !.l = l,
                              !.rec = Invalid, !.ext = ext, !.ext0 = ext,
                              !.lvl = lvl, !.en = enabled[l],
                              !.w = openLock[l].w])
            /\ held' = [held EXCEPT ![t] = Invalid]
       ELSE /\ Goto(t, "or_lock", [NoLoc EXCEPT !.l = l, !.ext = ext, !.ext0 = ext,
                                       !.lvl = lvl, !.tmp = enabled[l]])
            /\ ret' = [ret EXCEPT ![t] = NoRet]
            /\ UNCHANGED held
    /\ UNCHANGED <<build, coreVars, scoped, saved, handled, regVars>>
\* Lines 135-138: the call starts with the lock-free read of d.enabled;
\* a disabled logger returns the invalid record.
open_record_enabled(t, l, ext, lvl) ==
    /\ alive[l]
    /\ IF Disabled(l)
       THEN /\ Return(t, [NoRet EXCEPT !.op = "open_record", !.l = l,
                              !.rec = Invalid, !.ext = ext, !.ext0 = ext,
                              !.lvl = lvl, !.en = enabled[l],
                              !.w = openLock[l].w])
            /\ held' = [held EXCEPT ![t] = Invalid]
       ELSE /\ Goto(t, "or_lock", [NoLoc EXCEPT !.l = l, !.ext = ext, !.ext0 = ext,
                                       !.lvl = lvl, !.tmp = enabled[l]])
            /\ ret' = [ret EXCEPT ![t] = NoRet]
            /\ UNCHANGED held
    /\ UNCHANGED <<build, coreVars, scoped, saved, handled, regVars>>

\* Line 140: reader_lock_type lock(d.lock.open).
open_record_lock(t) ==
    /\ pc[t] = "or_lock"
    /\ ReaderLockable(openLock[loc[t].l])
    /\ openLock' = [openLock EXCEPT ![loc[t].l] = RLock(@, t)]
    /\ Goto(t, "or_filter", [loc[t] EXCEPT !.seen = filter[loc[t].l],
                                      !.sc0 = scoped[loc[t].l][t],
                                      !.fes0 = frontends[loc[t].l]])
    /\ UNCHANGED <<build, alive, enabled, filter, exception, frontends, level,
                   pushLock, scoped, saved, held, ret, calls, reconf, handled, regVars>>

\* Mutant of open_record_filter: scoped.merge(external) runs before the
\* filter is asked.
open_record_filter_merge_first(t) ==
    /\ pc[t] = "or_filter"
    /\ LET l == loc[t].l
           merged == ScopedMerge(scoped[l][t], loc[t].ext)
           verdict == FilterCall(filter[l], merged, loc[t].lvl)
           done == [NoRet EXCEPT !.op = "open_record", !.l = l, !.evals = 1,
                        !.ext = merged, !.ext0 = loc[t].ext0, !.lvl = loc[t].lvl,
                        !.merged = TRUE, !.en = loc[t].tmp, !.verdict = verdict,
                        !.seen = loc[t].seen, !.by = filter[l],
                        !.sc0 = loc[t].sc0, !.sc1 = scoped[l][t]]
       IN  CASE verdict = "true" ->
                  /\ Goto(t, "or_build", [loc[t] EXCEPT !.f = filter[l]])
                  /\ UNCHANGED <<openLock, held, ret>>
             [] verdict = "false" ->
                  /\ openLock' = [openLock EXCEPT ![l] = RUnlock(@, t)]
                  /\ Return(t, [done EXCEPT !.rec = Invalid])
                  /\ held' = [held EXCEPT ![t] = Invalid]
             [] OTHER ->
                  /\ openLock' = [openLock EXCEPT ![l] = RUnlock(@, t)]
                  /\ Return(t, [done EXCEPT !.raised = TRUE])
                  /\ held' = [held EXCEPT ![t] = NoRec]
    /\ UNCHANGED <<build, alive, enabled, filter, exception, frontends, level,
                   pushLock, scoped, saved, calls, reconf, handled, regVars>>
\* Lines 141-143: the filter is called over scoped.view(external); a rejection
\* (or the filter raising) leaves through the lock's destructor, external as
\* it was passed.
open_record_filter(t) ==
    /\ pc[t] = "or_filter"
    /\ LET l == loc[t].l
           view == ScopedView(scoped[l][t], loc[t].ext)
           verdict == FilterCall(filter[l], view, loc[t].lvl)
           done == [NoRet EXCEPT !.op = "open_record", !.l = l, !.evals = 1,
                        !.ext = loc[t].ext, !.ext0 = loc[t].ext0, !.lvl = loc[t].lvl,
                        !.en = loc[t].tmp, !.verdict = verdict,
                        !.seen = loc[t].seen, !.by = filter[l],
                        !.sc0 = loc[t].sc0, !.sc1 = scoped[l][t], !.view = view]
       IN  CASE verdict = "true" ->
                  /\ Goto(t, "or_build", [loc[t] EXCEPT !.f = filter[l], !.view = view])
                  /\ UNCHANGED <<openLock, held, ret>>
             [] verdict = "false" ->
                  /\ openLock' = [openLock EXCEPT ![l] = RUnlock(@, t)]
                  /\ Return(t, [done EXCEPT !.rec = Invalid])
                  /\ held' = [held EXCEPT ![t] = Invalid]
             [] OTHER ->
                  /\ openLock' = [openLock EXCEPT ![l] = RUnlock(@, t)]
                  /\ Return(t, [done EXCEPT !.raised = TRUE])
                  /\ held' = [held EXCEPT ![t] = NoRec]
    /\ UNCHANGED <<build, alive, enabled, filter, exception, frontends, level,
                   pushLock, scoped, saved, calls, reconf, handled, regVars>>

\* Lines 145-152: populate, populate_additional, scoped.merge, the record.
open_record_build(t) ==
    /\ pc[t] = "or_build"
    /\ LET l == loc[t].l
           internal == populate_additional(populate(build), loc[t].lvl)
           external == ScopedMerge(scoped[l][t], loc[t].ext)
       IN  /\ openLock' = [openLock EXCEPT ![l] = RUnlock(@, t)]
           /\ held' = [held EXCEPT ![t] = Record(internal, external)]
           /\ Return(t, [NoRet EXCEPT !.op = "open_record", !.l = l, !.evals = 1,
                             !.rec = Record(internal, external), !.merged = TRUE,
                             !.ext = external, !.ext0 = loc[t].ext0,
                             !.lvl = loc[t].lvl, !.seen = loc[t].seen,
                             !.en = loc[t].tmp, !.verdict = "true",
                             !.by = loc[t].f, !.sc0 = loc[t].sc0,
                             !.sc1 = scoped[l][t], !.view = loc[t].view])
    /\ UNCHANGED <<build, alive, enabled, filter, exception, frontends, level,
                   pushLock, scoped, saved, calls, reconf, handled, regVars>>

\* ------------------------------------------------------------- push
\* Line 155: reader_lock_type lock(d.lock.push); the record is moved in.
push_lock(t, l) ==
    /\ alive[l]
    /\ held[t] # NoRec
    /\ ReaderLockable(pushLock[l])
    /\ pushLock' = [pushLock EXCEPT ![l] = RLock(@, t)]
    /\ Goto(t, "push_iter", [NoLoc EXCEPT !.l = l, !.i = 1, !.rec = held[t],
                                 !.fes0 = frontends[l], !.h = exception[l],
                                 !.f = filter[l]])
    /\ held' = [held EXCEPT ![t] = NoRec]
    /\ ret' = [ret EXCEPT ![t] = NoRet]
    /\ UNCHANGED <<build, alive, enabled, filter, exception, frontends, level,
                   openLock, scoped, saved, handled, regVars>>

\* d.exception(): the handlers absorb; an empty std::function raises
\* std::bad_function_call.
ExceptionAbsorbs(h) == h # "empty"

\* Mutant of AtEnd: the loop stops one frontend early.
AtEndEarly(i, fes) == i >= Len(fes)
\* Line 156: it != d.frontends.end(), with i the position of it.
AtEnd(i, fes) == i > Len(fes)

\* Lines 156-163: one iteration of the loop over d.frontends, or its end.
push_iter(t) ==
    /\ pc[t] = "push_iter"
    /\ LET l == loc[t].l
           i == loc[t].i
           done == [NoRet EXCEPT !.op = "push", !.l = l, !.rec = loc[t].rec,
                        !.fes = frontends[l], !.h = loc[t].h]
       IN  IF AtEnd(i, frontends[l])
           THEN /\ pushLock' = [pushLock EXCEPT ![l] = RUnlock(@, t)]
                /\ Return(t, [done EXCEPT !.att = loc[t].att, !.exc = loc[t].exc])
                /\ UNCHANGED handled
           ELSE /\ handled' = handled + 1
                /\ IF frontends[l][i] = "ok"
                   THEN /\ Goto(t, "push_iter", [loc[t] EXCEPT !.i = i + 1,
                                                     !.att = Append(@, i)])
                        /\ UNCHANGED <<pushLock, ret>>
                   ELSE IF ExceptionAbsorbs(exception[l])
                   THEN /\ Goto(t, "push_iter", [loc[t] EXCEPT !.i = i + 1,
                                                     !.att = Append(@, i),
                                                     !.exc = @ + 1])
                        /\ UNCHANGED <<pushLock, ret>>
                   ELSE /\ pushLock' = [pushLock EXCEPT ![l] = RUnlock(@, t)]
                        /\ Return(t, [done EXCEPT !.att = Append(loc[t].att, i),
                                          !.exc = loc[t].exc + 1, !.raised = TRUE])
    /\ UNCHANGED <<build, alive, enabled, filter, exception, frontends, level,
                   openLock, scoped, saved, held, calls, reconf, regVars>>

\* ------------------------------------------------------------- reconfiguration
\* Mutant of set_filter_lockable: one lock guards the filter and the
\* frontends, so set_filter waits for the pushes too.
set_filter_one_lock(l) == WriterLockable(openLock[l]) /\ WriterLockable(pushLock[l])
\* Mutant of set_filter_lockable: the filter is replaced without the lock.
set_filter_unlocked(l) == TRUE
\* Line 113: writer_lock_type lock(d.lock.open).
set_filter_lockable(l) == WriterLockable(openLock[l])

\* Lines 242-250 calling line 113: verbose_logger_t::set_filter(level) passes
\* default_filter{level}, set_filter(level, filter) the caller's predicate.
set_filter_lock(t, l, lv, f) ==
    /\ alive[l]
    /\ set_filter_lockable(l)
    /\ openLock' = [openLock EXCEPT ![l] = WLock(@, t)]
    /\ Goto(t, "sf_apply", [NoLoc EXCEPT !.l = l, !.lvl = lv, !.f = f])
    /\ ret' = [ret EXCEPT ![t] = NoRet]
    /\ UNCHANGED <<build, alive, enabled, filter, exception, frontends, level,
                   pushLock, scoped, saved, held, handled, regVars>>

\* Line 114, and the lock's release at line 115.
set_filter_apply(t) ==
    /\ pc[t] = "sf_apply"
    /\ filter' = [filter EXCEPT ![loc[t].l] = loc[t].f]
    /\ openLock' = [openLock EXCEPT ![loc[t].l] = WUnlock(@)]
    /\ Goto(t, "sf_store", loc[t])
    /\ UNCHANGED <<build, alive, enabled, exception, frontends, level, pushLock,
                   scoped, saved, held, ret, calls, reconf, handled, regVars>>

\* Lines 244 and 249: this->level.store(level).
set_filter_store(t) ==
    /\ pc[t] = "sf_store"
    /\ level' = [level EXCEPT ![loc[t].l] = loc[t].lvl]
    /\ Return(t, [NoRet EXCEPT !.op = "set_filter", !.l = loc[t].l,
                      !.lvl = loc[t].lvl, !.by = loc[t].f])
    /\ UNCHANGED <<build, alive, enabled, filter, exception, frontends, openLock,
                   pushLock, scoped, saved, held, calls, reconf, handled, regVars>>

\* Line 118.
add_frontend_lock(t, l, fe) ==
    /\ alive[l]
    /\ Len(frontends[l]) < MaxFrontends
    /\ WriterLockable(pushLock[l])
    /\ pushLock' = [pushLock EXCEPT ![l] = WLock(@, t)]
    /\ Goto(t, "af_apply", [NoLoc EXCEPT !.l = l, !.fe = fe])
    /\ ret' = [ret EXCEPT ![t] = NoRet]
    /\ UNCHANGED <<build, alive, enabled, filter, exception, frontends, level,
                   openLock, scoped, saved, held, handled, regVars>>

\* Lines 119-120.
add_frontend_apply(t) ==
    /\ pc[t] = "af_apply"
    /\ frontends' = [frontends EXCEPT ![loc[t].l] = Append(@, loc[t].fe)]
    /\ pushLock' = [pushLock EXCEPT ![loc[t].l] = WUnlock(@)]
    /\ Return(t, [NoRet EXCEPT !.op = "add_frontend", !.l = loc[t].l,
                      !.fes = Append(frontends[loc[t].l], loc[t].fe)])
    /\ UNCHANGED <<build, alive, enabled, filter, exception, level, openLock,
                   scoped, saved, held, calls, reconf, handled, regVars>>

\* Line 123.
set_exception_handler_lock(t, l, h) ==
    /\ alive[l]
    /\ WriterLockable(pushLock[l])
    /\ pushLock' = [pushLock EXCEPT ![l] = WLock(@, t)]
    /\ Goto(t, "se_apply", [NoLoc EXCEPT !.l = l, !.fe = h])
    /\ ret' = [ret EXCEPT ![t] = NoRet]
    /\ UNCHANGED <<build, alive, enabled, filter, exception, frontends, level,
                   openLock, scoped, saved, held, handled, regVars>>

\* Lines 124-125.
set_exception_handler_apply(t) ==
    /\ pc[t] = "se_apply"
    /\ exception' = [exception EXCEPT ![loc[t].l] = loc[t].fe]
    /\ pushLock' = [pushLock EXCEPT ![loc[t].l] = WUnlock(@)]
    /\ Return(t, [NoRet EXCEPT !.op = "set_exception_handler", !.l = loc[t].l,
                      !.h = loc[t].fe])
    /\ UNCHANGED <<build, alive, enabled, filter, frontends, level, openLock,
                   scoped, saved, held, calls, reconf, handled, regVars>>

\* Lines 108-110: d.enabled.store(enable).
set_enabled(t, l, b) ==
    /\ alive[l]
    /\ enabled' = [enabled EXCEPT ![l] = b]
    /\ Return(t, [NoRet EXCEPT !.op = "enabled", !.l = l])
    /\ UNCHANGED <<build, alive, filter, exception, frontends, level, openLock,
                   pushLock, scoped, saved, held, handled, regVars>>

\* Lines 238-240: level.load().
verbosity(t, l) ==
    /\ alive[l]
    /\ Return(t, [NoRet EXCEPT !.op = "verbosity", !.l = l, !.val = level[l],
                      !.by = filter[l]])
    /\ UNCHANGED <<build, coreVars, scoped, saved, held, handled, regVars>>

\* ------------------------------------------------------------- construction
\* No object lives in slot l and no thread is constructing one there.
Unbuilt(l) == ~alive[l] /\ \A u \in Threads : loc[u].l # l

\* Lines 80-84 and 222-225: the constructor of a verbose_logger_t.
construct(t, l, lv) ==
    /\ Unbuilt(l)
    /\ alive' = [alive EXCEPT ![l] = TRUE]
    /\ enabled' = [enabled EXCEPT ![l] = TRUE]
    /\ exception' = [exception EXCEPT ![l] = "default"]
    /\ filter' = [filter EXCEPT ![l] = DefaultFilter(lv)]
    /\ level' = [level EXCEPT ![l] = lv]
    /\ Return(t, [NoRet EXCEPT !.op = "construct", !.l = l])
    /\ UNCHANGED <<build, frontends, openLock, pushLock, scoped, saved, held, handled,
                   regVars>>

\* ------------------------------------------------------------- move
\* Line 91, first access: the load of other.d.enabled. A move constructor
\* (lines 86-88, 227-230) runs the assignment on a new object whose members
\* are default-initialized: d.enabled holds an indeterminate value, d.filter
\* and d.exception are empty std::functions, d.frontends is empty.
move_load(t, l, o, ctor, garbage) ==
    /\ alive[o]
    /\ IF ctor THEN Unbuilt(l) ELSE alive[l]
    /\ IF ctor
       THEN /\ enabled' = [enabled EXCEPT ![l] = garbage]
            /\ filter' = [filter EXCEPT ![l] = FilterEmpty]
            /\ exception' = [exception EXCEPT ![l] = "empty"]
            /\ frontends' = [frontends EXCEPT ![l] = <<>>]
       ELSE UNCHANGED <<enabled, filter, exception, frontends>>
    /\ Goto(t, "mv_xchg", [NoLoc EXCEPT !.l = l, !.o = o, !.tmp = enabled[o],
                               !.ctor = ctor,
                               !.pre = [Snapshot EXCEPT
                                   ![l].enabled = enabled'[l],
                                   ![l].filter = filter'[l],
                                   ![l].exception = exception'[l],
                                   ![l].frontends = frontends'[l]]])
    /\ ret' = [ret EXCEPT ![t] = NoRet]
    /\ UNCHANGED <<build, alive, level, openLock, pushLock, scoped, saved, held, handled,
                   regVars>>

\* Line 91, second access: d.enabled.exchange(...).
move_xchg(t) ==
    /\ pc[t] = "mv_xchg"
    /\ enabled' = [enabled EXCEPT ![loc[t].l] = loc[t].tmp]
    /\ Goto(t, "mv_store", [loc[t] EXCEPT !.tmp2 = enabled[loc[t].l]])
    /\ UNCHANGED <<build, alive, filter, exception, frontends, level, openLock,
                   pushLock, scoped, saved, held, ret, calls, reconf, handled, regVars>>

\* Line 91, third access: the store to other.d.enabled.
move_store(t) ==
    /\ pc[t] = "mv_store"
    /\ enabled' = [enabled EXCEPT ![loc[t].o] = loc[t].tmp2]
    /\ Goto(t, "mv_lock", [loc[t] EXCEPT !.i = 1])
    /\ UNCHANGED <<build, alive, filter, exception, frontends, level, openLock,
                   pushLock, scoped, saved, held, ret, calls, reconf, handled, regVars>>

\* Mutant of LockOrder: the mutexes are taken in the order line 93 passes
\* them, the assigned-to logger's first.
LockOrderAsPassed(l, o) ==
    << <<"open", l>>, <<"push", l>>, <<"open", o>>, <<"push", o>> >>
\* The order detail::thread::multi_lock takes the four mutexes in: one fixed
\* order, the same whichever of the two loggers is assigned to.
LockOrder(l, o) ==
    << <<"open", "A">>, <<"push", "A">>, <<"open", "B">>, <<"push", "B">> >>

\* Line 93: detail::thread::multi_lock over the four mutexes; this step takes
\* the k-th of them in writer mode, waiting until it is free.
multi_lock(t, l, o, k) ==
    LET m == LockOrder(l, o)[k]
    IN  IF m[1] = "open"
        THEN /\ WriterLockable(openLock[m[2]])
             /\ openLock' = [openLock EXCEPT ![m[2]] = WLock(@, t)]
             /\ UNCHANGED pushLock
        ELSE /\ WriterLockable(pushLock[m[2]])
             /\ pushLock' = [pushLock EXCEPT ![m[2]] = WLock(@, t)]
             /\ UNCHANGED openLock

move_lock(t) ==
    /\ pc[t] = "mv_lock"
    /\ multi_lock(t, loc[t].l, loc[t].o, loc[t].i)
    /\ IF loc[t].i = Len(LockOrder(loc[t].l, loc[t].o))
       THEN Goto(t, "mv_swap", loc[t])
       ELSE Goto(t, "mv_lock", [loc[t] EXCEPT !.i = @ + 1])
    /\ UNCHANGED <<build, alive, enabled, filter, exception, frontends, level,
                   scoped, saved, held, ret, calls, reconf, handled, regVars>>

Swap(f, l, o) == [f EXCEPT ![l] = f[o], ![o] = f[l]]

\* scoped.swap(other.scoped), line 99.
scoped_swap(l, o) == Swap(scoped, l, o)

\* Lines 95-101: the swaps, and the release of the four locks.
move_swap(t) ==
    /\ pc[t] = "mv_swap"
    /\ filter' = Swap(filter, loc[t].l, loc[t].o)
    /\ frontends' = Swap(frontends, loc[t].l, loc[t].o)
    /\ scoped' = scoped_swap(loc[t].l, loc[t].o)
    /\ openLock' = [x \in Loggers |-> WUnlock(openLock[x])]
    /\ pushLock' = [x \in Loggers |-> WUnlock(pushLock[x])]
    /\ Goto(t, "mv_level", loc[t])
    /\ UNCHANGED <<build, alive, enabled, exception, level, saved, held, ret,
                   calls, reconf, handled, regVars>>

\* Lines 229 and 234: level takes other.level; the new object of a move
\* constructor exists from here on.
move_level(t) ==
    /\ pc[t] = "mv_level"
    /\ level' = [level EXCEPT ![loc[t].l] = level[loc[t].o]]
    /\ alive' = [alive EXCEPT ![loc[t].l] = TRUE]
    /\ Return(t, [NoRet EXCEPT !.op = IF loc[t].ctor THEN "move_construct" ELSE "move_assign",
                      !.l = loc[t].l, !.o = loc[t].o, !.pre = loc[t].pre,
                      !.post = Snapshot])
    /\ UNCHANGED <<build, enabled, filter, exception, frontends, openLock, pushLock,
                   scoped, saved, held, calls, reconf, handled, regVars>>

\* ------------------------------------------------------------- scopes
\* The views of a stack, one per external set a caller may pass.
Views(frames) == [e \in Externals |-> ScopedView(frames, e)]

\* Mutant of PopFrame: the outermost frame is dropped.
PopOutermost(frames) == Tail(frames)
\* The end of a scope pops the frame pushed last.
PopFrame(frames) == SubSeq(frames, 1, Len(frames) - 1)

\* enter(frame): a scope begins, its frame goes on the calling thread's stack.
\* saved remembers what the views were before.
scoped_enter(t, l, frame, depth) ==
    /\ alive[l]
    /\ Len(scoped[l][t]) < depth
    /\ scoped' = [scoped EXCEPT ![l][t] = Append(@, frame)]
    /\ saved' = [saved EXCEPT ![l][t] = Append(@, [before |-> Views(scoped[l][t]),
                                                     frame |-> frame])]
    /\ Return(t, [NoRet EXCEPT !.op = "enter", !.l = l])
    /\ UNCHANGED <<build, coreVars, held, handled, regVars>>

\* The innermost scope ends: its frame is popped.
scoped_leave(t, l) ==
    /\ alive[l]
    /\ scoped[l][t] # <<>>
    /\ saved[l][t] # <<>>
    /\ scoped' = [scoped EXCEPT ![l][t] = PopFrame(@)]
    /\ saved' = [saved EXCEPT ![l][t] = SubSeq(@, 1, Len(@) - 1)]
    /\ Return(t, [NoRet EXCEPT !.op = "leave", !.l = l,
                      !.views = saved[l][t][Len(saved[l][t])].before])
    /\ UNCHANGED <<build, coreVars, held, handled, regVars>>

\* ------------------------------------------------------------- registry
\* A factory as add receives it: its type name and which object it is.
Factories == {[type |-> n, id |-> k] : n \in RegNames, k \in {"f1", "f2"}}

loggerVars == <<build, coreVars, scoped, saved, threadVars>>

\* add(factory): the factory is stored under its type name in the mapping of
\* its kind; registering a name again replaces the factory.
registry_add(kind, factory) ==
    /\ regOps < MaxRegOps
    /\ registry' = [registry EXCEPT ![kind][factory.type] = factory.id]
    /\ added' = added \cup {<<kind, factory.type, factory.id>>}
    /\ lookup' = NoLookup
    /\ regOps' = regOps + 1
    /\ UNCHANGED built
    /\ UNCHANGED loggerVars

\* Mutant of Find: one mapping serves the three kinds.
FindAnyKind(kind, name) ==
    IF \E k \in RegKinds : registry[k][name] # None
    THEN CHOOSE id \in {registry[k][name] : k \in RegKinds} : id # None
    ELSE "NotFound"
\* sink(type) / handler(type) / formatter(type): the factory stored under
\* exactly that name in that kind's mapping, or NotFound.
Find(kind, name) ==
    IF registry[kind][name] # None THEN registry[kind][name] ELSE "NotFound"

registry_lookup(kind, name) ==
    /\ regOps < MaxRegOps
    /\ lookup' = [kind |-> kind, name |-> name, result |-> Find(kind, name)]
    /\ regOps' = regOps + 1
    /\ UNCHANGED <<registry, added, built>>
    /\ UNCHANGED loggerVars

\* ------------------------------------------------------------- builder
\* A handler definition of the configuration document: the handler's type
\* name, its formatter's type name and its sinks' type names.
HandlerDefs ==
    [type : RegNames, formatter : RegNames,
     sinks : {<<"file">>, <<"File">>, <<"file", "File">>}]

\* What the walk makes of a definition whose lookups did not all succeed.
Unresolved == [ok |-> FALSE, handler |-> None, formatter |-> None, sinks |-> <<>>]

\* Mutant of build_handler: the sinks are looked up when first written to.
build_handler_lazy(def) ==
    LET h == Find("handler", def.type)
        f == Find("formatter", def.formatter)
    IN  IF h = "NotFound" \/ f = "NotFound"
        THEN Unresolved
        ELSE [ok |-> TRUE, handler |-> h, formatter |-> f, sinks |-> def.sinks]
\* builder_t::handler(config): the handler factory, the formatter factory and
\* each sink factory are looked up in the registry; a failed lookup fails the
\* handler.
build_handler(def) ==
    LET h == Find("handler", def.type)
        f == Find("formatter", def.formatter)
        s == [i \in 1..Len(def.sinks) |-> Find("sink", def.sinks[i])]
    IN  IF h = "NotFound" \/ f = "NotFound" \/ \E i \in 1..Len(s) : s[i] = "NotFound"
        THEN Unresolved
        ELSE [ok |-> TRUE, handler |-> h, formatter |-> f, sinks |-> s]

\* builder.build(name): every handler definition of the document is resolved
\* and attached to a new logger, which is returned; a failed lookup leaves
\* build with NotFound and no logger.
builder_build(name, config) ==
    LET hs == [i \in 1..Len(config) |-> build_handler(config[i])]
        ok == \A i \in 1..Len(hs) : hs[i].ok
    IN  /\ built' = [name |-> name, config |-> config, known |-> added,
                     result |-> IF ok THEN "logger" ELSE "NotFound",
                     frontends |-> IF ok THEN hs ELSE <<>>]
        /\ UNCHANGED <<registry, added, lookup, regOps>>
        /\ UNCHANGED loggerVars

\* ------------------------------------------------------------- initial states
\* Frontend lists a logger may have been given before the threads start.
InitFrontends == {<<>>, <<"raises">>, <<"raises", "ok">>}

\* Logger A built by its constructor with threshold T (lines 80-84, 222-225),
\* then given the frontends fes; slot B empty.
InitCore(T, flt, fes) ==
    /\ alive = [l \in Loggers |-> l = "A"]
    /\ enabled = [l \in Loggers |-> l = "A"]
    /\ filter = [l \in Loggers |-> IF l = "A" THEN flt ELSE FilterEmpty]
    /\ exception = [l \in Loggers |-> IF l = "A" THEN "default" ELSE "empty"]
    /\ frontends = [l \in Loggers |-> IF l = "A" THEN fes ELSE <<>>]
    /\ level = [l \in Loggers |-> IF l = "A" THEN T ELSE 0]
    /\ openLock = [l \in Loggers |-> FreeLock]
    /\ pushLock = [l \in Loggers |-> FreeLock]
    /\ scoped = [l \in Loggers |-> [t \in Threads |-> <<>>]]
    /\ saved = [l \in Loggers |-> [t \in Threads |-> <<>>]]

InitThreads ==
    /\ pc = [t \in Threads |-> "idle"]
    /\ loc = [t \in Threads |-> NoLoc]
    /\ held = [t \in Threads |-> NoRec]
    /\ ret = [t \in Threads |-> NoRet]
    /\ calls = [t \in Threads |-> 0]
    /\ reconf = 0
    /\ handled = 0

InitRegistry ==
    /\ registry = [k \in RegKinds |-> [n \in RegNames |-> None]]
    /\ added = {}
    /\ lookup = NoLookup
    /\ regOps = 0
    /\ built = NoBuilt

Init ==
    /\ build \in BuildConfigs
    /\ \E T \in Levels : InitCore(T, DefaultFilter(T), <<>>)
    /\ InitThreads
    /\ InitRegistry

\* ------------------------------------------------------------- calls of a thread
\* Application threads log; a configuring thread reconfigures and moves.
Workers == {"t1"}
Admins == {"t2"}

OpenRecord(t) ==
    \E l \in Loggers, ext \in Externals, lvl \in Levels :
        /\ Begin(t)
        /\ UNCHANGED reconf
        /\ open_record_enabled(t, l, ext, lvl)

\* open_record(level): the overload with the default, empty external set
\* (line 252).
OpenRecordLevel(t) ==
    \E l \in Loggers, lvl \in Levels :
        /\ Begin(t)
        /\ UNCHANGED reconf
        /\ open_record_enabled(t, l, <<>>, lvl)

Push(t) ==
    \E l \in Loggers :
        /\ Begin(t)
        /\ UNCHANGED reconf
        /\ push_lock(t, l)

Verbosity(t) ==
    \E l \in Loggers :
        /\ Begin(t)
        /\ UNCHANGED reconf
        /\ verbosity(t, l)

Enter(t) ==
    \E l \in Loggers, frame \in Frames :
        /\ Begin(t)
        /\ UNCHANGED reconf
        /\ scoped_enter(t, l, frame, MaxDepth)

Leave(t) ==
    \E l \in Loggers :
        /\ Begin(t)
        /\ UNCHANGED reconf
        /\ scoped_leave(t, l)

SetFilterLevel(t) ==
    \E l \in Loggers, lv \in Levels :
        /\ BeginReconf(t)
        /\ set_filter_lock(t, l, lv, DefaultFilter(lv))

SetFilterCustom(t) ==
    \E l \in Loggers, f \in CustomFilters :
        /\ BeginReconf(t)
        /\ set_filter_lock(t, l, MaxLevel, f)

AddFrontend(t) ==
    \E l \in Loggers, fe \in {"ok", "raises"} :
        /\ BeginReconf(t)
        /\ add_frontend_lock(t, l, fe)

SetExceptionHandler(t) ==
    \E l \in Loggers :
        /\ BeginReconf(t)
        /\ set_exception_handler_lock(t, l, "custom")

SetEnabled(t) ==
    \E l \in Loggers, b \in BOOLEAN :
        /\ BeginReconf(t)
        /\ set_enabled(t, l, b)

Construct(t) ==
    \E l \in Loggers, lv \in Levels :
        /\ BeginReconf(t)
        /\ construct(t, l, lv)

MoveAssign(t) ==
    \E l \in Loggers :
        /\ BeginReconf(t)
        /\ move_load(t, l, Other(l), FALSE, FALSE)

MoveConstruct(t) ==
    \E l \in Loggers, garbage \in BOOLEAN :
        /\ BeginReconf(t)
        /\ move_load(t, l, Other(l), TRUE, garbage)

\* The steps inside open_record.
OpenSteps(t) ==
    \/ open_record_lock(t)
    \/ open_record_filter(t)
    \/ open_record_build(t)

\* The steps inside set_filter.
FilterSteps(t) ==
    \/ set_filter_apply(t)
    \/ set_filter_store(t)

\* The steps inside a move.
MoveSteps(t) ==
    \/ move_xchg(t)
    \/ move_store(t)
    \/ move_lock(t)
    \/ move_swap(t)
    \/ move_level(t)

\* The opening side: application threads open records inside scopes while the
\* configuring thread replaces the filter, flips the enable flag, builds and
\* moves loggers.
Next ==
    \/ \E t \in Workers :
        \/ OpenRecord(t)
        \/ Verbosity(t)
        \/ Enter(t)
        \/ Leave(t)
        \/ OpenSteps(t)
    \/ \E t \in Admins :
        \/ SetFilterLevel(t)
        \/ SetFilterCustom(t)
        \/ SetEnabled(t)
        \/ Construct(t)
        \/ MoveAssign(t)
        \/ MoveConstruct(t)
        \/ FilterSteps(t)
        \/ MoveSteps(t)

Spec == Init /\ [][Next]_vars

\* ------------------------------------------------------------- the pushing side
\* Application threads open and push records while the configuring thread
\* attaches frontends, replaces the exception handler, builds and moves
\* loggers.
InitPush ==
    /\ build = {}
    /\ \E T \in Levels, fes \in InitFrontends : InitCore(T, DefaultFilter(T), fes)
    /\ InitThreads
    /\ InitRegistry

NextPush ==
    \/ \E t \in Workers :
        \/ OpenRecordLevel(t)
        \/ Push(t)
        \/ OpenSteps(t)
        \/ push_iter(t)
    \/ \E t \in Admins :
        \/ AddFrontend(t)
        \/ SetExceptionHandler(t)
        \/ Construct(t)
        \/ MoveAssign(t)
        \/ MoveConstruct(t)
        \/ add_frontend_apply(t)
        \/ set_exception_handler_apply(t)
        \/ MoveSteps(t)

SpecPush == InitPush /\ [][NextPush]_vars

\* ------------------------------------------------------------- the logging loop
\* Every thread runs open_record then push, LoopM times, on logger A, which
\* accepts everything and has one frontend; nothing is reconfigured.
InitLoop ==
    /\ build = {}
    /\ \E fe \in {"ok", "raises"} : InitCore(0, FilterNone, <<fe>>)
    /\ InitThreads
    /\ InitRegistry

LoopBegin(t) ==
    /\ Idle(t)
    /\ calls[t] < 2 * LoopM
    /\ calls' = [calls EXCEPT ![t] = @ + 1]
    /\ UNCHANGED reconf

LoopOpen(t) ==
    \E lvl \in Levels :
        /\ LoopBegin(t)
        /\ held[t] = NoRec
        /\ open_record_enabled(t, "A", <<>>, lvl)

LoopPush(t) ==
    /\ LoopBegin(t)
    /\ push_lock(t, "A")

LoopDone(t) == Idle(t) /\ calls[t] = 2 * LoopM

NextLoop ==
    \E t \in Threads :
        \/ LoopOpen(t)
        \/ LoopPush(t)
        \/ OpenSteps(t)
        \/ push_iter(t)

SpecLoop == InitLoop /\ [][NextLoop]_vars

\* ------------------------------------------------------------- scopes alone
\* Frames one thread may have active (SpecScoped).
ScopeDepth == 3
ScopeFrames == Frames \cup {<< <<"b", 2>> >>}

InitScoped ==
    /\ build = {}
    /\ InitCore(0, DefaultFilter(0), <<>>)
    /\ InitThreads
    /\ InitRegistry

ScopeEnter(t) ==
    \E frame \in ScopeFrames :
        /\ Idle(t)
        /\ scoped_enter(t, "A", frame, ScopeDepth)
        /\ UNCHANGED <<calls, reconf>>

ScopeLeave(t) ==
    /\ Idle(t)
    /\ scoped_leave(t, "A")
    /\ UNCHANGED <<calls, reconf>>

NextScoped ==
    \E t \in Threads :
        \/ ScopeEnter(t)
        \/ ScopeLeave(t)

SpecScoped == InitScoped /\ [][NextScoped]_vars

\* ------------------------------------------------------------- records inside scopes
\* The stacks of up to MaxDepth frames a thread may be inside of.
Stacks == UNION {[1..n -> Frames] : n \in 0..MaxDepth}

\* What scoped_enter has saved once the frames of stack were entered in turn.
SavedOf(stack) ==
    [k \in 1..Len(stack) |->
        [before |-> Views(SubSeq(stack, 1, k - 1)), frame |-> stack[k]]]

\* Thread t1 is inside some nested scopes of logger A, the only logger yet.
InitView ==
    /\ build = {}
    /\ alive = [l \in Loggers |-> l = "A"]
    /\ enabled = [l \in Loggers |-> l = "A"]
    /\ filter = [l \in Loggers |-> IF l = "A" THEN DefaultFilter(0) ELSE FilterEmpty]
    /\ exception = [l \in Loggers |-> IF l = "A" THEN "default" ELSE "empty"]
    /\ frontends = [l \in Loggers |-> <<>>]
    /\ level = [l \in Loggers |-> 0]
    /\ openLock = [l \in Loggers |-> FreeLock]
    /\ pushLock = [l \in Loggers |-> FreeLock]
    /\ \E stack \in Stacks :
          /\ scoped = [l \in Loggers |-> [t \in Threads |->
                          IF l = "A" /\ t = "t1" THEN stack ELSE <<>>]]
          /\ saved = [l \in Loggers |-> [t \in Threads |->
                         IF l = "A" /\ t = "t1" THEN SavedOf(stack) ELSE <<>>]]
    /\ InitThreads
    /\ InitRegistry

\* The thread opens records on either logger while the configuring thread
\* replaces filters and moves the loggers, scoped state included.
ViewOpen(t) ==
    \E l \in Loggers, ext \in Externals :
        /\ Begin(t)
        /\ UNCHANGED reconf
        /\ open_record_enabled(t, l, ext, MaxLevel)

NextView ==
    \/ \E t \in Workers :
        \/ ViewOpen(t)
        \/ OpenSteps(t)
    \/ \E t \in Admins :
        \/ SetFilterCustom(t)
        \/ MoveAssign(t)
        \/ MoveConstruct(t)
        \/ FilterSteps(t)
        \/ MoveSteps(t)

SpecView == InitView /\ [][NextView]_vars

\* ------------------------------------------------------------- the registry alone
InitReg ==
    /\ build = {}
    /\ InitCore(0, DefaultFilter(0), <<>>)
    /\ InitThreads
    /\ InitRegistry

RegistryAdd ==
    \E kind \in RegKinds, factory \in Factories : registry_add(kind, factory)

RegistryLookup ==
    \E kind \in RegKinds, name \in RegNames : registry_lookup(kind, name)

NextRegistry ==
    \/ RegistryAdd
    \/ RegistryLookup

SpecRegistry == InitReg /\ [][NextRegistry]_vars

\* ------------------------------------------------------------- the builder
\* Handler definitions in one configuration document.
MaxHandlers == 2
\* The documents a builder may be given: up to MaxHandlers definitions.
Configs == UNION {[1..n -> HandlerDefs] : n \in 0..MaxHandlers}

BuilderBuild ==
    /\ built = NoBuilt
    /\ \E config \in Configs : builder_build("app", config)

\* Factories are registered, and a builder made over the registry builds
\* once, at any point of the registrations.
NextBuilder ==
    \/ RegistryAdd
    \/ BuilderBuild

SpecBuilder == InitReg /\ [][NextBuilder]_vars

\* ------------------------------------------------------------- transfers alone
\* One thread configures and moves loggers and nothing runs beside it.
\* Logger A was built with threshold TA and given the frontends fes; B is
\* either still to be made (by a move constructor) or was built with
\* threshold TB and given a handler of its own by set_exception_handler.
InitTransfer ==
    /\ build = {}
    /\ \E TA \in Levels, TB \in Levels, fes \in InitFrontends, both \in BOOLEAN :
          /\ both \/ TB = 0
          /\ alive = [l \in Loggers |-> l = "A" \/ both]
          /\ enabled = [l \in Loggers |-> l = "A" \/ both]
          /\ filter = [l \in Loggers |->
                          IF l = "A" THEN DefaultFilter(TA)
                          ELSE IF both THEN DefaultFilter(TB) ELSE FilterEmpty]
          /\ exception = [l \in Loggers |->
                             IF l = "A" THEN "default"
                             ELSE IF both THEN "custom" ELSE "empty"]
          /\ frontends = [l \in Loggers |-> IF l = "A" THEN fes ELSE <<>>]
          /\ level = [l \in Loggers |-> IF l = "A" THEN TA ELSE TB]
    /\ openLock = [l \in Loggers |-> FreeLock]
    /\ pushLock = [l \in Loggers |-> FreeLock]
    /\ scoped = [l \in Loggers |-> [t \in Threads |-> <<>>]]
    /\ saved = [l \in Loggers |-> [t \in Threads |-> <<>>]]
    /\ InitThreads
    /\ InitRegistry

NextTransfer ==
    \E t \in Admins :
        \/ SetFilterLevel(t)
        \/ SetEnabled(t)
        \/ AddFrontend(t)
        \/ SetExceptionHandler(t)
        \/ Enter(t)
        \/ MoveAssign(t)
        \/ MoveConstruct(t)
        \/ FilterSteps(t)
        \/ add_frontend_apply(t)
        \/ set_exception_handler_apply(t)
        \/ MoveSteps(t)

SpecTransfer == InitTransfer /\ [][NextTransfer]_vars

\* ------------------------------------------------------------- moves racing
\* Both loggers exist; each thread makes its calls on either of them, and a
\* move by t1 assigns to A from B while a move by t2 assigns to B from A.
Dest(t) == IF t = "t1" THEN "A" ELSE "B"

InitRace ==
    /\ build = {}
    /\ alive = [l \in Loggers |-> TRUE]
    /\ enabled = [l \in Loggers |-> TRUE]
    /\ filter = [l \in Loggers |-> DefaultFilter(0)]
    /\ exception = [l \in Loggers |-> "default"]
    /\ frontends = [l \in Loggers |-> IF l = "A" THEN <<"ok">> ELSE <<>>]
    /\ level = [l \in Loggers |-> 0]
    /\ openLock = [l \in Loggers |-> FreeLock]
    /\ pushLock = [l \in Loggers |-> FreeLock]
    /\ scoped = [l \in Loggers |-> [t \in Threads |-> <<>>]]
    /\ saved = [l \in Loggers |-> [t \in Threads |-> <<>>]]
    /\ InitThreads
    /\ InitRegistry

RaceMove(t) ==
    /\ Begin(t)
    /\ UNCHANGED reconf
    /\ move_load(t, Dest(t), Other(Dest(t)), FALSE, FALSE)

RaceSetFilter(t) ==
    \E l \in Loggers :
        /\ Begin(t)
        /\ UNCHANGED reconf
        /\ set_filter_lock(t, l, MaxLevel, DefaultFilter(MaxLevel))

RaceAddFrontend(t) ==
    \E l \in Loggers :
        /\ Begin(t)
        /\ UNCHANGED reconf
        /\ add_frontend_lock(t, l, "ok")

RaceSetExceptionHandler(t) ==
    \E l \in Loggers :
        /\ Begin(t)
        /\ UNCHANGED reconf
        /\ set_exception_handler_lock(t, l, "custom")

RaceOpen(t) ==
    \E l \in Loggers :
        /\ Begin(t)
        /\ UNCHANGED reconf
        /\ open_record_enabled(t, l, <<>>, MaxLevel)

\* The steps of a call that has started: each of them is taken once the lock
\* it waits for is free (filters and frontends return).
RaceSteps(t) ==
    \/ OpenSteps(t)
    \/ push_iter(t)
    \/ FilterSteps(t)
    \/ add_frontend_apply(t)
    \/ set_exception_handler_apply(t)
    \/ MoveSteps(t)

NextRace ==
    \E t \in Threads :
        \/ RaceMove(t)
        \/ RaceSetFilter(t)
        \/ RaceAddFrontend(t)
        \/ RaceSetExceptionHandler(t)
        \/ RaceOpen(t)
        \/ Push(t)
        \/ RaceSteps(t)

\* A thread that can take a step of its call eventually takes one: the
\* scheduler is fair and so are the locks.
SpecRace ==
    /\ InitRace
    /\ [][NextRace]_vars
    /\ \A t \in Threads : WF_vars(RaceSteps(t))

\* ------------------------------------------------------------- claims
OpenReturned(t) == ret[t].op = "open_record"

\* C1: an open_record that read d.enabled as false returns the invalid record
\* and never calls the filter, whatever the filter, the external set and the
\* filter argument are.
C1_DisabledReturnsInvalid ==
    \A t \in Threads :
        (OpenReturned(t) /\ ~ret[t].en) =>
            /\ ret[t].rec = Invalid
            /\ ret[t].evals = 0
            /\ ~ret[t].raised
            /\ ~ret[t].merged

\* A disabled logger whose installed filter accepts everything was asked
\* with a non-empty external set.
C1_Witness ==
    \E t \in Threads :
        /\ OpenReturned(t)
        /\ ~ret[t].en
        /\ ret[t].ext0 # <<>>
        /\ filter[ret[t].l] = FilterNone

\* C2: an open_record whose filter returned false returns the invalid record
\* without merging: external is as the caller passed it, no internal set was
\* built, and the thread's scoped stack is what it was.
C2_RejectionDoesNotMerge ==
    \A t \in Threads :
        (OpenReturned(t) /\ ret[t].verdict = "false") =>
            /\ ret[t].rec = Invalid
            /\ ret[t].rec.internal = <<>>
            /\ ~ret[t].merged
            /\ ret[t].ext = ret[t].ext0
            /\ ret[t].sc1 = ret[t].sc0

\* A rejection inside a scope: there were frames to merge, and a caller's
\* external set.
C2_Witness ==
    \E t \in Threads :
        /\ OpenReturned(t)
        /\ ret[t].verdict = "false"
        /\ ret[t].sc0 # <<>>
        /\ ret[t].ext0 # <<>>

\* C4: the filter an open_record is decided by is the one installed when it
\* took the open lock (it is never replaced under a reader), and once
\* set_filter(new) has returned an open_record holding the open lock is
\* decided by new.
C4_SetFilterBoundary ==
    \A t \in Threads :
        /\ pc[t] \in {"or_filter", "or_build"} =>
               /\ filter[loc[t].l] = loc[t].seen
               /\ \A a \in Admins :
                      (ret[a].op = "set_filter" /\ ret[a].l = loc[t].l) =>
                          loc[t].seen = ret[a].by
        /\ (OpenReturned(t) /\ ret[t].evals = 1) => ret[t].by = ret[t].seen

\* An open_record was decided by a filter that set_filter installed.
C4_Witness ==
    \E t \in Threads, a \in Admins :
        /\ OpenReturned(t)
        /\ ret[t].evals = 1
        /\ ret[t].by = FilterReject
        /\ ret[a].op = "set_filter"
        /\ ret[a].by = FilterReject

\* C7: with the default filter of threshold T deciding, open_record(level) is
\* valid exactly when level >= T, and a valid record's internal set ends with
\* the severity attribute carrying that level, after the process attributes
\* (the timestamp among them).
C7_SeverityFilter ==
    \A t \in Threads :
        (OpenReturned(t) /\ ret[t].en /\ ret[t].evals = 1 /\ ret[t].by.kind = "default") =>
            /\ ret[t].rec.valid <=> ret[t].lvl >= ret[t].by.threshold
            /\ ret[t].rec.valid =>
                   LET in == ret[t].rec.internal
                       n == Len(in)
                   IN  /\ n >= 2
                       /\ in[n] = <<"severity", ret[t].lvl>>
                       /\ \E i \in 1..(n - 1) : in[i][1] = "timestamp"
                       /\ \A i \in 1..(n - 1) : in[i][1] # "severity"

\* A record at the threshold itself, in a build with the optional process
\* attributes.
C7_Witness ==
    \E t \in Threads :
        /\ OpenReturned(t)
        /\ ret[t].by.kind = "default"
        /\ ret[t].rec.valid
        /\ ret[t].lvl = ret[t].by.threshold
        /\ ret[t].lvl > 0
        /\ Len(ret[t].rec.internal) > 2

\* C8 as claimed: while A is the only logger (so no move has touched it), the
\* threshold verbosity() returns is the one A's default filter compares with.
C8_ThresholdMatchesFilter ==
    (~alive["B"] /\ filter["A"].kind = "default") =>
        filter["A"].threshold = level["A"]

\* C3: when every thread has finished its LoopM rounds of open_record and
\* push on the accept-all logger with one frontend, handle has been invoked
\* exactly (number of threads) x LoopM times; it never exceeds that.
C3_EveryRecordDeliveredOnce ==
    /\ handled <= Cardinality(Threads) * LoopM
    /\ (\A t \in Threads : LoopDone(t)) => handled = Cardinality(Threads) * LoopM

\* All threads are through their loops.
C3_Witness ==
    /\ \A t \in Threads : LoopDone(t)
    /\ handled > LoopM

\* A push of a valid record has ended.
PushReturned(t) == ret[t].op = "push" /\ ret[t].rec.valid

\* C5 as claimed: a finished push attempted every frontend of the list once,
\* in attachment order, and called the exception handler once per frontend
\* that raised.
C5_EveryFrontendOnce ==
    \A t \in Threads :
        PushReturned(t) =>
            /\ ret[t].att = [i \in 1..Len(ret[t].fes) |-> i]
            /\ ret[t].exc = Cardinality({i \in 1..Len(ret[t].fes) : ret[t].fes[i] = "raises"})

\* C6 as claimed: no push raises to its caller.
C6_PushNeverRaises ==
    \A t \in Threads : PushReturned(t) => ~ret[t].raised

\* C9: every open scope shows its frame right after what was visible before
\* it and before the external pairs, and after a scope ends the views are
\* those taken before it began.
C9_ScopesNestAndRestore ==
    \A t \in Threads :
        LET stack == scoped["A"][t]
            hist == saved["A"][t]
        IN  /\ Len(hist) = Len(stack)
            /\ \A k \in 1..Len(hist) : \A e \in Externals :
                   ScopedView(SubSeq(stack, 1, k), e)
                       = hist[k].before[<<>>] \o hist[k].frame \o e
            /\ \A k \in 1..Len(hist) :
                   hist[k].before = Views(SubSeq(stack, 1, k - 1))
            /\ ret[t].op = "leave" => Views(stack) = ret[t].views

\* The inner of two nested scopes has ended; the outer one is still open.
C9_Witness ==
    \E t \in Threads :
        /\ ret[t].op = "leave"
        /\ Len(scoped["A"][t]) = 1
        /\ ret[t].views[<<>>] # <<>>

Registered(kind, name) == \E x \in added : x[1] = kind /\ x[2] = name

\* C10: a lookup returns a factory exactly when add was called before with a
\* factory of that kind and exactly that type name, and then it is one of
\* those; otherwise it fails with NotFound.
C10_LookupExactlyRegistered ==
    lookup.kind # None =>
        /\ lookup.result # "NotFound" <=> Registered(lookup.kind, lookup.name)
        /\ lookup.result # "NotFound" => <<lookup.kind, lookup.name, lookup.result>> \in added

\* A handler lookup fails although a sink is registered under the same name
\* and a handler under the name in another case.
C10_Witness ==
    /\ lookup.kind = "handler"
    /\ lookup.name = "file"
    /\ lookup.result = "NotFound"
    /\ Registered("sink", "file")
    /\ Registered("handler", "File")

\* Every type name a handler definition refers to, with its kind.
References(def) ==
    {<<"handler", def.type>>, <<"formatter", def.formatter>>}
        \cup {<<"sink", def.sinks[i]>> : i \in 1..Len(def.sinks)}

\* The definition refers only to types registered before the build.
Resolvable(def, known) ==
    \A r \in References(def) : \E x \in known : x[1] = r[1] /\ x[2] = r[2]

\* C11: build fails with NotFound exactly when some handler definition of the
\* document refers to a handler, formatter or sink type that was not
\* registered, and then returns no logger; a returned logger has one handler
\* per definition, each made of factories that were registered under the
\* names referred to, so nothing is left to be looked up later.
C11_BuildFailsOnUnregistered ==
    built.name # None =>
        LET config == built.config
            allKnown == \A i \in 1..Len(config) : Resolvable(config[i], built.known)
        IN  /\ built.result = "NotFound" <=> ~allKnown
            /\ built.result = "NotFound" => built.frontends = <<>>
            /\ built.result # "NotFound" =>
                   /\ built.result = "logger"
                   /\ Len(built.frontends) = Len(config)
                   /\ \A i \in 1..Len(config) :
                          LET h == built.frontends[i]
                          IN  /\ h.ok
                              /\ <<"handler", config[i].type, h.handler>> \in built.known
                              /\ <<"formatter", config[i].formatter, h.formatter>> \in built.known
                              /\ Len(h.sinks) = Len(config[i].sinks)
                              /\ \A k \in 1..Len(h.sinks) :
                                     <<"sink", config[i].sinks[k], h.sinks[k]>> \in built.known

\* A build failed only for the sink of its second handler definition: the
\* first definition resolved, and so did the second's handler and formatter.
C11_Witness ==
    /\ built.result = "NotFound"
    /\ Len(built.config) = 2
    /\ Resolvable(built.config[1], built.known)
    /\ \E x \in built.known : x[1] = "handler" /\ x[2] = built.config[2].type
    /\ \E x \in built.known : x[1] = "formatter" /\ x[2] = built.config[2].formatter
    /\ ~Resolvable(built.config[2], built.known)

\* A move assignment or move construction has returned.
MoveReturned(t) == ret[t].op \in {"move_assign", "move_construct"}

\* C12 as claimed: when a move that ran alone has returned, the destination
\* holds what the source had before it of the enabled flag, the filter, the
\* frontends, the exception handler and the scoped state, and the source
\* holds what the destination had.
C12_MoveExchangesAll ==
    \A t \in Threads :
        MoveReturned(t) =>
            /\ ret[t].post[ret[t].l] = ret[t].pre[ret[t].o]
            /\ ret[t].post[ret[t].o] = ret[t].pre[ret[t].l]

\* C13 as claimed: a move has changed nothing of the logger it moves from,
\* nor of an existing logger it assigns to, while it is still on its way to
\* the four locks, and at every point of a move assignment the two enabled
\* flags are either both as before or both exchanged.
C13_NoChangeBeforeLocks ==
    \A t \in Threads :
        LET l == loc[t].l
            o == loc[t].o
            pre == loc[t].pre
        IN  /\ pc[t] \in {"mv_xchg", "mv_store", "mv_lock"} =>
                   /\ Snapshot[o] = pre[o]
                   /\ ~loc[t].ctor => Snapshot[l] = pre[l]
            /\ (pc[t] \in {"mv_xchg", "mv_store", "mv_lock", "mv_swap", "mv_level"}
                    /\ ~loc[t].ctor) =>
                   \/ enabled[l] = pre[l].enabled /\ enabled[o] = pre[o].enabled
                   \/ enabled[l] = pre[o].enabled /\ enabled[o] = pre[l].enabled

\* C14: with moves in opposite directions racing each other and the other
\* calls, every call that has started returns.
C14_EveryCallReturns ==
    \A t \in Threads : (pc[t] # "idle") ~> (pc[t] = "idle")

\* Both moves are under way at once: the one assigning to A holds A's open
\* lock and the one assigning to B waits for it.
C14_Witness ==
    /\ pc["t1"] = "mv_lock"
    /\ pc["t2"] = "mv_lock"
    /\ openLock["A"].w = "t1"
    /\ loc["t2"].i = 1

\* C15 as claimed: while a push holds the push lock, the frontends and the
\* exception handler of its logger are the ones it found when it took the
\* lock; once add_frontend or set_exception_handler has returned, a push
\* holding the lock found what that call installed; and a finished push that
\* iterated the list add_frontend made has delivered to every frontend of
\* it, the new one last.
C15_PushSeesWholeReconfiguration ==
    \A t \in Threads :
        /\ pc[t] = "push_iter" =>
               /\ frontends[loc[t].l] = loc[t].fes0
               /\ exception[loc[t].l] = loc[t].h
               /\ \A a \in Admins :
                      /\ (ret[a].op = "add_frontend" /\ ret[a].l = loc[t].l) =>
                             loc[t].fes0 = ret[a].fes
                      /\ (ret[a].op = "set_exception_handler" /\ ret[a].l = loc[t].l) =>
                             loc[t].h = ret[a].h
        /\ \A a \in Admins :
               (PushReturned(t) /\ ret[a].op = "add_frontend"
                    /\ ret[a].l = ret[t].l /\ ret[t].fes = ret[a].fes) =>
                   ret[t].att = [i \in 1..Len(ret[t].fes) |-> i]

\* Thread a starts set_filter / add_frontend / set_exception_handler on l.
StartSetFilter(a, l) ==
    Begin(a) /\ UNCHANGED reconf
        /\ set_filter_lock(a, l, MaxLevel, DefaultFilter(MaxLevel))
StartAddFrontend(a, l) ==
    Begin(a) /\ UNCHANGED reconf /\ add_frontend_lock(a, l, "ok")
StartSetExceptionHandler(a, l) ==
    Begin(a) /\ UNCHANGED reconf /\ set_exception_handler_lock(a, l, "custom")

\* A thread free to make one more call.
CanCall(a) == Idle(a) /\ calls[a] < MaxCalls

\* C16: set_filter can take its lock whenever the open lock is free,
\* whoever holds the push lock, and add_frontend and set_exception_handler
\* can take theirs whenever the push lock is free, whoever holds the open
\* lock; once started, each of them can finish.
C16_LocksIndependent ==
    \A a \in Threads :
        /\ \A l \in Loggers :
               CanCall(a) =>
                   /\ WriterLockable(openLock[l]) => ENABLED StartSetFilter(a, l)
                   /\ WriterLockable(pushLock[l]) =>
                          /\ ENABLED StartSetExceptionHandler(a, l)
                          /\ Len(frontends[l]) < MaxFrontends =>
                                 ENABLED StartAddFrontend(a, l)
        /\ pc[a] = "sf_apply" => ENABLED set_filter_apply(a)
        /\ pc[a] = "sf_store" => ENABLED set_filter_store(a)
        /\ pc[a] = "af_apply" => ENABLED add_frontend_apply(a)
        /\ pc[a] = "se_apply" => ENABLED set_exception_handler_apply(a)

\* A push that took the push lock under the old filter is still iterating
\* after a set_filter on its logger has started and returned.
C16_Witness ==
    \E t \in Threads, a \in Threads :
        /\ pc[t] = "push_iter"
        /\ ret[a].op = "set_filter"
        /\ ret[a].l = loc[t].l
        /\ filter[loc[t].l] = ret[a].by
        /\ loc[t].f # filter[loc[t].l]

\* C17: the external set of a valid record an open_record returned is the
\* view its filter was called with, and that is the frames the thread had
\* active, outermost first, followed by the pairs the caller passed, every
\* pair kept.
C17_ExternalIsFilteredView ==
    \A t \in Threads :
        (OpenReturned(t) /\ ret[t].rec.valid) =>
            /\ ret[t].rec.external = ret[t].view
            /\ ret[t].view = Flatten(ret[t].sc0) \o ret[t].ext0

\* A record accepted by a filter that looked at the view, inside two nested
\* scopes and with a caller's pair whose name a frame carries too.
C17_Witness ==
    \E t \in Threads :
        /\ OpenReturned(t)
        /\ ret[t].rec.valid
        /\ ret[t].by = FilterHas("a")
        /\ Len(ret[t].sc0) = 2
        /\ ret[t].sc0[1] # ret[t].sc0[2]
        /\ ret[t].ext0 # <<>>
        /\ \E i \in 1..Len(ret[t].rec.external) :
               \E j \in (i + 1)..Len(ret[t].rec.external) :
                   ret[t].rec.external[i] = ret[t].rec.external[j]

\* C18 as claimed: a push given the invalid record invokes no frontend's
\* handle and not the exception handler, at any point of the call, and
\* returns without raising.
C18_InvalidPushIsNoOp ==
    \A t \in Threads :
        /\ (pc[t] = "push_iter" /\ loc[t].rec = Invalid) =>
               /\ loc[t].att = <<>>
               /\ loc[t].exc = 0
        /\ (ret[t].op = "push" /\ ret[t].rec = Invalid) =>
               /\ ret[t].att = <<>>
               /\ ret[t].exc = 0
               /\ ~ret[t].raised

\* Thread t calls open_record on l and is back in the same step, having
\* left the open lock as it was.
OpenReturnsAtOnce(t, l) ==
    /\ Begin(t)
    /\ UNCHANGED reconf
    /\ open_record_enabled(t, l, <<>>, MaxLevel)
    /\ pc'[t] = "idle"
    /\ ret'[t].rec = Invalid
    /\ openLock' = openLock

\* C19: on a disabled logger open_record can always be called and returns
\* the invalid record at once, whoever holds the open lock, and an
\* open_record that read the flag as false never got to line 140.
C19_DisabledTakesNoLock ==
    \A t \in Threads :
        /\ \A l \in Loggers :
               (CanCall(t) /\ alive[l] /\ ~enabled[l]) => ENABLED OpenReturnsAtOnce(t, l)
        /\ (OpenReturned(t) /\ ~ret[t].en) =>
               /\ ret[t].rec = Invalid
               /\ ret[t].seen = FilterEmpty
               /\ ret[t].evals = 0

\* An open_record on a disabled logger returned while another thread held
\* that logger's open lock in writer mode.
C19_Witness ==
    \E t \in Threads :
        /\ OpenReturned(t)
        /\ ~ret[t].en
        /\ ret[t].rec = Invalid
        /\ ret[t].w # None
        /\ ret[t].w # t

\* No call is in progress.
Quiescent == \A t \in Threads : Idle(t)

\* C20 as claimed: with no call in progress, every logger has a default
\* filter installed and verbosity() is the threshold that filter compares
\* with, after any constructions, set_filter(level) calls and moves.
C20_VerbosityMatchesFilter ==
    Quiescent =>
        \A l \in Loggers :
            alive[l] =>
                /\ filter[l].kind = "default"
                /\ filter[l].threshold = level[l]

====
